---- MODULE Spec2Model ----
(***************************************************************************)
(* memoria_demo (src/memoria_demo/src/main.rs): a sequential program that  *)
(* reads a name and a birth year, computes an age, and prints the          *)
(* addresses of stack, heap, static and code objects.                      *)
(*                                                                         *)
(* Text is modelled as it is stored: a String is a sequence of UTF-8 bytes *)
(* (naturals 0..255), a Vec<char> is a sequence of code points.  Standard  *)
(* output is modelled with its line buffer: `pending` holds what print!    *)
(* has written but the stream has not yet handed to the terminal, `out`    *)
(* what the terminal has received.                                         *)
(***************************************************************************)
EXTENDS Integers, Sequences, FiniteSets, TLC

VARIABLES pc, site, out, pending, log, name, s, birth_year, stack_value,
          heap_box, name_chars, current_year, age, heap, arena, frame, callee,
          stderr

vars == <<pc, site, out, pending, log, name, s, birth_year, stack_value,
          heap_box, name_chars, current_year, age, heap, arena, frame,
          callee, stderr>>

(***************************************************************************)
(* Bounds of the model.                                                    *)
(***************************************************************************)
\* how many times read_line may return before the model stops following the run
MaxReads == 3

(***************************************************************************)
(* i32                                                                     *)
(***************************************************************************)
I32Max == 2147483647
I32Min == (-I32Max) - 1

(***************************************************************************)
(* Lines the terminal may supply (raw bytes).                              *)
(***************************************************************************)
LAna    == <<65, 110, 97, 10>>                                \* "Ana\n"
LJose   == <<74, 111, 115, 195, 169, 10>>                     \* "Jos\u{e9}\n"
L2000   == <<50, 48, 48, 48, 10>>                             \* "2000\n"
L2999   == <<50, 57, 57, 57, 10>>                             \* "2999\n"
L2026   == <<50, 48, 50, 54>>                                 \* "2026", no newline
LPlus   == <<194, 160, 43, 55, 13, 10>>                       \* "\u{a0}+7\r\n"
LMin    == <<45, 50, 49, 52, 55, 52, 56, 51, 54, 52, 56, 10>> \* "-2147483648\n"
LOver   == <<50, 49, 52, 55, 52, 56, 51, 54, 52, 56, 10>>     \* "2147483648\n"
LUnder  == <<45, 50, 49, 52, 55, 52, 56, 51, 54, 52, 57, 10>> \* "-2147483649\n"
LBlank  == <<10>>                                             \* "\n"
LMinus  == <<45, 10>>                                         \* "-\n"
L12a    == <<49, 50, 97, 10>>                                 \* "12a\n"
LZeros  == <<45, 48, 48, 55, 10>>                             \* "-007\n"
LBad    == <<255, 10>>                                        \* not UTF-8

Lines == {LAna, LJose, L2000, L2999, L2026, LPlus, LMin, LOver, LUnder,
          LBlank, LMinus, L12a, LZeros, LBad}

\* years the system clock may report
CurrentYears == {1970, 2026}

(***************************************************************************)
(* UTF-8: validation (done by read_line) and decoding (done by chars()).   *)
(***************************************************************************)
IsCont(b) == b >= 128 /\ b <= 191

\* byte length of the character whose lead byte is b; 0 if b cannot lead
Utf8Width(b) ==
  IF b < 128 THEN 1
  ELSE IF b >= 194 /\ b <= 223 THEN 2
  ELSE IF b >= 224 /\ b <= 239 THEN 3
  ELSE IF b >= 240 /\ b <= 244 THEN 4
  ELSE 0

\* the permitted range of the second byte (excludes overlong forms and surrogates)
SecondOk(b0, b1) ==
  IF b0 = 224 THEN b1 >= 160 /\ b1 <= 191
  ELSE IF b0 = 237 THEN b1 >= 128 /\ b1 <= 159
  ELSE IF b0 = 240 THEN b1 >= 144 /\ b1 <= 191
  ELSE IF b0 = 244 THEN b1 >= 128 /\ b1 <= 143
  ELSE IsCont(b1)

RECURSIVE ValidUtf8(_)
ValidUtf8(bs) ==
  IF bs = <<>> THEN TRUE
  ELSE LET w == Utf8Width(bs[1]) IN
       /\ w > 0
       /\ Len(bs) >= w
       /\ w >= 2 => SecondOk(bs[1], bs[2])
       /\ \A i \in 3..w : IsCont(bs[i])
       /\ ValidUtf8(SubSeq(bs, w + 1, Len(bs)))

\* the code point encoded by the first w bytes of bs
CodePoint(bs, w) ==
  IF w = 1 THEN bs[1]
  ELSE IF w = 2 THEN (bs[1] - 192) * 64 + (bs[2] - 128)
  ELSE IF w = 3 THEN (bs[1] - 224) * 4096 + (bs[2] - 128) * 64 + (bs[3] - 128)
  ELSE (bs[1] - 240) * 262144 + (bs[2] - 128) * 4096
         + (bs[3] - 128) * 64 + (bs[4] - 128)

\* str::chars().collect::<Vec<char>>()
RECURSIVE Chars(_)
Chars(bs) ==
  IF bs = <<>> THEN <<>>
  ELSE LET w == Utf8Width(bs[1]) IN
       <<CodePoint(bs, w)>> \o Chars(SubSeq(bs, w + 1, Len(bs)))

\* char::is_whitespace (Unicode White_Space)
IsWhitespace(c) ==
  \/ c \in {9, 10, 11, 12, 13, 32, 133, 160, 5760, 8232, 8233, 8239, 8287, 12288}
  \/ (c >= 8192 /\ c <= 8202)

\* index of the lead byte of the last character of a non-empty string
LastCharStart(bs) ==
  CHOOSE i \in 1..Len(bs) :
    /\ ~IsCont(bs[i])
    /\ \A j \in (i + 1)..Len(bs) : IsCont(bs[j])

RECURSIVE TrimStart(_)
TrimStart(bs) ==
  IF bs = <<>> THEN bs
  ELSE LET w == Utf8Width(bs[1]) IN
       IF IsWhitespace(CodePoint(bs, w))
       THEN TrimStart(SubSeq(bs, w + 1, Len(bs)))
       ELSE bs

RECURSIVE TrimEnd(_)
TrimEnd(bs) ==
  IF bs = <<>> THEN bs
  ELSE LET i == LastCharStart(bs)
           t == SubSeq(bs, i, Len(bs)) IN
       IF IsWhitespace(CodePoint(t, Len(t)))
       THEN TrimEnd(SubSeq(bs, 1, i - 1))
       ELSE bs

\* str::trim
Trim(bs) == TrimEnd(TrimStart(bs))

(***************************************************************************)
(* str::parse::<i32>(): optional sign, then decimal digits accumulated     *)
(* with checked multiplication and checked addition (subtraction for a     *)
(* negative number).                                                       *)
(***************************************************************************)
Ok(y) == [ok |-> TRUE, val |-> y]
Err   == [ok |-> FALSE, val |-> 0]

IsDigit(b) == b >= 48 /\ b <= 57

RECURSIVE ParseDigits(_, _, _)
ParseDigits(bs, acc, positive) ==
  IF bs = <<>> THEN Ok(acc)
  ELSE IF ~IsDigit(bs[1]) THEN Err
  ELSE LET d == bs[1] - 48 IN
       IF positive
       THEN IF acc > I32Max \div 10 THEN Err                  \* checked_mul
            ELSE IF acc * 10 > I32Max - d THEN Err             \* checked_add
            ELSE ParseDigits(Tail(bs), acc * 10 + d, positive)
       ELSE IF acc < -(I32Max \div 10) THEN Err                \* checked_mul
            ELSE IF acc * 10 < I32Min + d THEN Err             \* checked_sub
            ELSE ParseDigits(Tail(bs), acc * 10 - d, positive)

\* a parser that reads a leading '-' as it reads '+'
ParseI32_SignDropped(bs) ==
  IF bs = <<>> THEN Err
  ELSE IF bs[1] \in {43, 45} /\ Len(bs) = 1 THEN Err
  ELSE IF bs[1] \in {43, 45} THEN ParseDigits(Tail(bs), 0, TRUE)
  ELSE ParseDigits(bs, 0, TRUE)

ParseI32(bs) ==
  IF bs = <<>> THEN Err
  ELSE IF bs[1] \in {43, 45} /\ Len(bs) = 1 THEN Err
  ELSE IF bs[1] = 43 THEN ParseDigits(Tail(bs), 0, TRUE)
  ELSE IF bs[1] = 45 THEN ParseDigits(Tail(bs), 0, FALSE)
  ELSE ParseDigits(bs, 0, TRUE)

(***************************************************************************)
(* Address space.  Code, static data, heap and stack are disjoint regions  *)
(* of the process image; the pointer of an empty String or Vec is          *)
(* NonNull::dangling(), whose address is the alignment of the element.     *)
(***************************************************************************)
TextAddrs   == {4096}
RodataAddrs == {8192}

\* the blocks the allocator may hand out, as the loader placed the heap
Arenas == { {16384, 16416, 16448, 16480}, {32768, 32800, 32832, 32864} }

Dangling(align) == align

\* where the compiler may place main's locals (String and Vec are 24 bytes,
\* Box 8, i32 4)
MainFrames ==
  { [name |-> 65408, name_chars |-> 65432, heap_box |-> 65456, stack_value |-> 65464],
    [stack_value |-> 65412, heap_box |-> 65416, name |-> 65424, name_chars |-> 65448] }

\* where show_stack_frame's parameter slot and local may be placed, below main's frame
CalleeFrames ==
  { [name |-> 65376, local |-> 65388],
    [name |-> 65392, local |-> 65384] }

NoFrame == [name |-> 0, local |-> 0]

Min(S) == CHOOSE x \in S : \A y \in S : x <= y

\* an allocation returns the first block of the arena that is not live
Allocate(h) == Min(arena \ h)

(***************************************************************************)
(* Standard output.                                                        *)
(***************************************************************************)
Item(k, t) == [k |-> k, t |-> t]
Line(k)    == Item(k, <<>>)

\* {} of an i32: a minus sign for a negative number, then its decimal digits
RECURSIVE DigitsOfNegative(_)
DigitsOfNegative(v) ==
  LET d == (10 - (v % 10)) % 10
      rest == (v + d) \div 10 IN
  IF rest = 0 THEN <<48 + d>> ELSE Append(DigitsOfNegative(rest), 48 + d)

Display(v) ==
  IF v = 0 THEN <<48>>
  ELSE IF v < 0 THEN <<45>> \o DigitsOfNegative(v)
  ELSE DigitsOfNegative(-v)

\* {:p}: "0x", then the address in lower-case hexadecimal
HexDigit(d) == IF d < 10 THEN 48 + d ELSE 87 + d

RECURSIVE HexDigits(_)
HexDigits(a) ==
  IF a < 16 THEN <<HexDigit(a)>>
  ELSE Append(HexDigits(a \div 16), HexDigit(a % 16))

Pointer(a) == <<48, 120>> \o HexDigits(a)

\* println!: the line buffer hands everything up to the newline to the terminal
AfterPrintln(items) == out \o pending \o items

\* print! without a newline: the text stays in the line buffer
AfterPrint(item) == Append(pending, item)

\* a flush that leaves the line buffer as it was
Flushed_Skipped(o, p) == [out |-> o, pending |-> p]

\* io::stdout().flush()
Flushed(o, p) == [out |-> o \o p, pending |-> <<>>]

PromptOf(st) == IF st = "name" THEN Line("prompt_name") ELSE Line("prompt_year")

(***************************************************************************)
(* Standard input: what one read_line call on stdin may meet.              *)
(***************************************************************************)
ReadOutcomes ==
  {[kind |-> "line", bytes |-> l] : l \in Lines}
    \cup {[kind |-> "eof", bytes |-> <<>>], [kind |-> "ioerr", bytes |-> <<>>]}

\* Stdin::read_line returns Err on an I/O error and on bytes that are not UTF-8;
\* at end of input it returns Ok(0)
ReadFails(r) == r.kind = "ioerr" \/ ~ValidUtf8(r.bytes)

\* the String read_line returns: String::new() with the bytes read appended
ReadText(r) == <<>> \o r.bytes

NoString == [buf |-> 0, bytes |-> <<>>]
NoBox    == [ptr |-> 0, val |-> 0]
NoVec    == [buf |-> 0, chars |-> <<>>]

(***************************************************************************)
(* The program.                                                            *)
(***************************************************************************)
Init ==
  /\ pc = "start"
  /\ site = "none"
  /\ out = <<>>
  /\ pending = <<>>
  /\ log = <<>>
  /\ name = NoString
  /\ s = <<>>
  /\ birth_year = 0
  /\ stack_value = 0
  /\ heap_box = NoBox
  /\ name_chars = NoVec
  /\ current_year = 0
  /\ age = 0
  /\ heap = {}
  /\ arena \in Arenas
  /\ frame \in MainFrames
  /\ callee = NoFrame
  /\ stderr = ""

\* a panic unwinds main: the owners are dropped and the process exits with failure
Panic(msg) ==
  /\ pc' = "panicked"
  /\ stderr' = msg
  /\ heap' = {}

\* main, lines 5-12: banner, welcome, call read_line for the name
Start ==
  /\ pc = "start"
  /\ out' = AfterPrintln(<<Line("banner"), Line("welcome")>>)
  /\ pending' = <<>>
  /\ pc' = "rl_print"
  /\ site' = "name"
  /\ UNCHANGED <<log, name, s, birth_year, stack_value, heap_box, name_chars,
                 current_year, age, heap, arena, frame, callee, stderr>>

\* read_line, line 68: print!("{}", prompt)
ReadLinePrint ==
  /\ pc = "rl_print"
  /\ pending' = AfterPrint(PromptOf(site))
  /\ pc' = "rl_flush"
  /\ UNCHANGED <<site, out, log, name, s, birth_year, stack_value, heap_box,
                 name_chars, current_year, age, heap, arena, frame, callee, stderr>>

\* read_line, line 69: flush().expect("flush failed")
ReadLineFlush ==
  /\ pc = "rl_flush"
  /\ \E flushed \in BOOLEAN :
       IF flushed
       THEN /\ out' = Flushed(out, pending).out
            /\ pending' = Flushed(out, pending).pending
            /\ pc' = "rl_read"
            /\ UNCHANGED <<heap, stderr>>
       ELSE /\ Panic("flush failed")
            /\ UNCHANGED <<out, pending>>
  /\ UNCHANGED <<site, log, name, s, birth_year, stack_value, heap_box,
                 name_chars, current_year, age, arena, frame, callee>>

\* the buffer of a String or Vec holding n elements of alignment align
BufferOf(n, align, block) == IF n = 0 THEN Dangling(align) ELSE block

\* read_line, lines 70-72, returning to main line 12: let name = read_line(..)
ReadName ==
  /\ pc = "rl_read"
  /\ site = "name"
  /\ Len(log) < MaxReads
  /\ \E r \in ReadOutcomes :
       /\ log' = Append(log, r)
       /\ IF ReadFails(r)
          THEN /\ Panic("failed to read")
               /\ UNCHANGED <<site, name>>
          ELSE LET block == Allocate(heap) IN
                 /\ name' = [buf |-> BufferOf(Len(ReadText(r)), 1, block),
                             bytes |-> ReadText(r)]
                 /\ heap' = IF ReadText(r) = <<>> THEN heap ELSE heap \cup {block}
                 /\ pc' = "rl_print"
                 /\ site' = "year"
                 /\ UNCHANGED stderr
  /\ UNCHANGED <<out, pending, s, birth_year, stack_value, heap_box, name_chars,
                 current_year, age, arena, frame, callee>>

\* a year loop that retries without a message
InvalidYear_Silent == <<>>

\* main, line 17: println!("Ano inv\u{e1}lido. Tente novamente.")
InvalidYear == <<Line("invalid")>>

\* read_line, lines 70-72, returning to main lines 14-18: one turn of the year
\* loop.  The String s is allocated and dropped within the turn, so the heap
\* is the same before and after.
ReadYear ==
  /\ pc = "rl_read"
  /\ site = "year"
  /\ Len(log) < MaxReads
  /\ \E r \in ReadOutcomes :
       /\ log' = Append(log, r)
       /\ IF ReadFails(r)
          THEN /\ Panic("failed to read")
               /\ UNCHANGED <<out, pending, s, birth_year>>
          ELSE /\ s' = ReadText(r)
               /\ UNCHANGED <<heap, stderr>>
               /\ IF ParseI32(Trim(ReadText(r))).ok
                  THEN /\ birth_year' = ParseI32(Trim(ReadText(r))).val
                       /\ pc' = "alloc"
                       /\ UNCHANGED <<out, pending>>
                  ELSE /\ out' = AfterPrintln(InvalidYear)
                       /\ pending' = <<>>
                       /\ pc' = "rl_print"
                       /\ UNCHANGED birth_year
  /\ UNCHANGED <<site, name, stack_value, heap_box, name_chars, current_year,
                 age, arena, frame, callee>>

\* the characters of the trimmed name instead of the name as read
NameChars_Trimmed(n) == Chars(Trim(n.bytes))

\* main, line 29: name.chars().collect()
NameChars(n) == Chars(n.bytes)

\* main, lines 23-29: stack_value, heap_box, name_chars
Alloc ==
  /\ pc = "alloc"
  /\ stack_value' = 12345
  /\ LET b1 == Allocate(heap)
         b2 == Allocate(heap \cup {b1}) IN
       /\ heap_box' = [ptr |-> b1, val |-> 2025]
       /\ name_chars' = [buf |-> BufferOf(Len(NameChars(name)), 4, b2),
                         chars |-> NameChars(name)]
       /\ heap' = IF NameChars(name) = <<>> THEN heap \cup {b1}
                  ELSE heap \cup {b1, b2}
  /\ pc' = "now"
  /\ UNCHANGED <<site, out, pending, log, name, s, birth_year, current_year,
                 age, arena, frame, callee, stderr>>

\* main, lines 32-33: Local::now().year()
Now ==
  /\ pc = "now"
  /\ current_year' \in CurrentYears
  /\ pc' = "age"
  /\ UNCHANGED <<site, out, pending, log, name, s, birth_year, stack_value,
                 heap_box, name_chars, age, heap, arena, frame, callee, stderr>>

\* a - b does not fit in an i32
SubOverflows(a, b) ==
  \/ (b < 0 /\ a > I32Max + b)
  \/ (b > 0 /\ a < I32Min + b)

\* a - b modulo 2^32, as a build without overflow checks computes it
WrappingSub(a, b) ==
  IF b < 0 /\ a > I32Max + b THEN (a - I32Max - 1) - (b + I32Max + 1)
  ELSE IF b > 0 /\ a < I32Min + b THEN (a + I32Max + 1) - (b - I32Max - 1)
  ELSE a - b

\* main, line 34: let age = current_year - birth_year.  On overflow a build
\* with overflow checks panics and a build without them wraps.
ComputeAge ==
  /\ pc = "age"
  /\ IF SubOverflows(current_year, birth_year)
     THEN \E overflow_checks \in BOOLEAN :
            IF overflow_checks
            THEN /\ Panic("attempt to subtract with overflow")
                 /\ UNCHANGED age
            ELSE /\ age' = WrappingSub(current_year, birth_year)
                 /\ pc' = "results"
                 /\ UNCHANGED <<heap, stderr>>
     ELSE /\ age' = current_year - birth_year
          /\ pc' = "results"
          /\ UNCHANGED <<heap, stderr>>
  /\ UNCHANGED <<site, out, pending, log, name, s, birth_year, stack_value,
                 heap_box, name_chars, current_year, arena, frame, callee>>

\* main, line 37: the name as shown, name.trim()
ShownName(n) == Trim(n.bytes)

\* main, lines 36-40
ResultsBlock ==
  << Line("res_hdr"),
     Item("res_name", ShownName(name)),
     Item("res_birth", Display(birth_year)),
     Item("res_current", Display(current_year)),
     Item("res_age", Display(age)) >>

PrintResults ==
  /\ pc = "results"
  /\ out' = AfterPrintln(ResultsBlock)
  /\ pending' = <<>>
  /\ pc' = "addrs"
  /\ UNCHANGED <<site, log, name, s, birth_year, stack_value, heap_box,
                 name_chars, current_year, age, heap, arena, frame, callee, stderr>>

\* String::as_ptr / Vec::as_ptr: the buffer, not the container
AsPtr(v) == v.buf

\* an address block that prints the containers where the buffers belong
AddressBlock_ContainersOnly ==
  << Line("addr_hdr"),
     Item("addr_welcome", Pointer(CHOOSE a \in RodataAddrs : TRUE)),
     Item("addr_name", Pointer(frame.name)),
     Item("addr_name_buf", Pointer(frame.name)),
     Item("addr_stack_value", Pointer(frame.stack_value)),
     Item("addr_heap_box", Pointer(frame.heap_box)),
     Item("addr_heap_box_pointee", Pointer(frame.heap_box)),
     Item("addr_name_chars", Pointer(frame.name_chars)),
     Item("addr_name_chars_buf", Pointer(frame.name_chars)),
     Item("addr_example_function", Pointer(CHOOSE a \in TextAddrs : TRUE)) >>

\* main, lines 43-54
AddressBlock ==
  << Line("addr_hdr"),
     Item("addr_welcome", Pointer(CHOOSE a \in RodataAddrs : TRUE)),
     Item("addr_name", Pointer(frame.name)),
     Item("addr_name_buf", Pointer(AsPtr(name))),
     Item("addr_stack_value", Pointer(frame.stack_value)),
     Item("addr_heap_box", Pointer(frame.heap_box)),
     Item("addr_heap_box_pointee", Pointer(heap_box.ptr)),
     Item("addr_name_chars", Pointer(frame.name_chars)),
     Item("addr_name_chars_buf", Pointer(AsPtr(name_chars))),
     Item("addr_example_function", Pointer(CHOOSE a \in TextAddrs : TRUE)) >>

PrintAddresses ==
  /\ pc = "addrs"
  /\ out' = AfterPrintln(AddressBlock)
  /\ pending' = <<>>
  /\ pc' = "call"
  /\ UNCHANGED <<site, log, name, s, birth_year, stack_value, heap_box,
                 name_chars, current_year, age, heap, arena, frame, callee, stderr>>

\* show_stack_frame, line 78: {:p} of `name: &String` prints the address the
\* reference holds, which is the address of main's `name`
ParamNamePrinted(fr, cal) == fr.name

\* show_stack_frame, line 79: {:p} of `&local`
LocalPrinted(fr, cal) == cal.local

\* show_stack_frame, lines 77-79
FrameBlock(fr, cal) ==
  << Line("frame_hdr"),
     Item("frame_name", Pointer(ParamNamePrinted(fr, cal))),
     Item("frame_local", Pointer(LocalPrinted(fr, cal))) >>

\* main, line 57, and show_stack_frame, lines 75-80
ShowStackFrame ==
  /\ pc = "call"
  /\ \E cal \in CalleeFrames :
       /\ callee' = cal
       /\ out' = AfterPrintln(FrameBlock(frame, cal))
  /\ pending' = <<>>
  /\ pc' = "hint"
  /\ UNCHANGED <<site, log, name, s, birth_year, stack_value, heap_box,
                 name_chars, current_year, age, heap, arena, frame, stderr>>

\* main, lines 59-60: the closing hint, then the owners go out of scope
Finish ==
  /\ pc = "hint"
  /\ out' = AfterPrintln(<<Line("hint")>>)
  /\ pending' = <<>>
  /\ heap' = {}
  /\ pc' = "done"
  /\ UNCHANGED <<site, log, name, s, birth_year, stack_value, heap_box,
                 name_chars, current_year, age, arena, frame, callee, stderr>>

Next ==
  \/ Start
  \/ ReadLinePrint
  \/ ReadLineFlush
  \/ ReadName
  \/ ReadYear
  \/ Alloc
  \/ Now
  \/ ComputeAge
  \/ PrintResults
  \/ PrintAddresses
  \/ ShowStackFrame
  \/ Finish

Spec == Init /\ [][Next]_vars

(***************************************************************************)
(* Vocabulary of the properties.                                           *)
(***************************************************************************)
\* log[1] is the read at the name prompt, log[2..] the reads at the year prompt
YearReads == 2..Len(log)

\* the texts read_line can hand to main, with what trimming each leaves
Texts == {ReadText(r) : r \in {x \in ReadOutcomes : ~ReadFails(x)}}

TrimOf == [x \in Texts |-> Trim(x)]

Returned(i) == log[i].kind # "ioerr" /\ log[i].bytes \in Texts

\* the text of read i with surrounding whitespace removed
Trimmed(i) == TrimOf[log[i].bytes]

OverflowPanic == stderr = "attempt to subtract with overflow"

\* the year loop has been left with a value
YearAccepted ==
  pc \in {"alloc", "now", "age", "results", "addrs", "call", "hint", "done"}
    \/ OverflowPanic

AgeComputed == pc \in {"results", "addrs", "call", "hint", "done"} \/ OverflowPanic

Terminated == pc \in {"done", "panicked"}

\* decimal integers as written: an optional sign, then one or more ASCII digits
DigitPart(bs) == IF bs # <<>> /\ bs[1] \in {43, 45} THEN Tail(bs) ELSE bs

IsDecimalInteger(bs) ==
  /\ DigitPart(bs) # <<>>
  /\ \A i \in DOMAIN DigitPart(bs) : DigitPart(bs)[i] \in 48..57

RECURSIVE StripZeros(_)
StripZeros(ds) == IF Len(ds) > 1 /\ ds[1] = 48 THEN StripZeros(Tail(ds)) ELSE ds

\* the shortest way of writing the same integer: no '+', no leading zeros, no "-0"
Canonical(bs) ==
  LET m == StripZeros(DigitPart(bs)) IN
  IF bs[1] = 45 /\ m # <<48>> THEN <<45>> \o m ELSE m

LexLeq(a, b) ==
  a = b \/ \E i \in DOMAIN a : a[i] < b[i] /\ \A j \in 1..(i - 1) : a[j] = b[j]

\* the written integer lies in -2147483648 .. 2147483647
FitsI32(bs) ==
  LET m == StripZeros(DigitPart(bs))
      limit == IF bs[1] = 45 THEN <<50, 49, 52, 55, 52, 56, 51, 54, 52, 56>>
               ELSE <<50, 49, 52, 55, 52, 56, 51, 54, 52, 55>> IN
  Len(m) < 10 \/ (Len(m) = 10 /\ LexLeq(m, limit))

\* the texts whose trimmed form is a decimal integer, and those within i32
DecimalTexts == {x \in Texts : IsDecimalInteger(TrimOf[x])}

I32Texts == {x \in DecimalTexts : FitsI32(TrimOf[x])}

Keys(items) == [i \in DOMAIN items |-> items[i].k]

Printed(k) == \E i \in DOMAIN out : out[i].k = k

\* the text of the output line k
OutText(k) == out[CHOOSE i \in DOMAIN out : out[i].k = k].t

CountOf(items, ks) == Cardinality({i \in DOMAIN items : items[i].k \in ks})

(***************************************************************************)
(* C1                                                                      *)
(***************************************************************************)
\* C1, as stated: every line at the year prompt whose trimmed text is a
\* decimal integer, of any magnitude or sign, ends the year loop with
\* birth_year equal to the integer written.
C1_AnyIntegerAccepted ==
  \A i \in YearReads :
    (Returned(i) /\ log[i].bytes \in DecimalTexts)
      => /\ i = Len(log)
         /\ YearAccepted
         /\ Display(birth_year) = Canonical(Trimmed(i))

\* C1, amended: every line at the year prompt whose trimmed text is a decimal
\* integer in the i32 range -2147483648 .. 2147483647 ends the year loop with
\* birth_year equal to the integer written, also after invalid attempts; the
\* loop ends on no other line, so a decimal integer outside that range is
\* rejected like any other invalid year.
C1_I32Accepted ==
  /\ \A i \in YearReads :
       (Returned(i) /\ log[i].bytes \in I32Texts)
         => /\ i = Len(log)
            /\ YearAccepted
            /\ Display(birth_year) = Canonical(Trimmed(i))
  /\ YearAccepted
       => /\ Len(log) >= 2
          /\ Returned(Len(log))
          /\ log[Len(log)].bytes \in I32Texts

\* the smallest i32 is accepted after an invalid attempt
C1_Witness ==
  /\ YearAccepted
  /\ Len(log) = 3
  /\ log[3].bytes = LMin
  /\ birth_year = I32Min

(***************************************************************************)
(* C2                                                                      *)
(***************************************************************************)
\* the texts that str::parse::<i32>() rejects after trimming
Unparsable == {x \in Texts : ~ParseI32(TrimOf[x]).ok}

InvalidReads == {i \in YearReads : Returned(i) /\ log[i].bytes \in Unparsable}

\* C2: every text read at the year prompt that does not parse is answered by
\* exactly one invalid-year message, after which the year prompt is shown
\* again and the results block is not reached; so the messages printed are as
\* many as the invalid texts read, however many there are in a row.
C2_OneMessagePerInvalidYear ==
  /\ CountOf(out, {"invalid"}) = Cardinality(InvalidReads)
  /\ CountOf(pending, {"invalid"}) = 0
  /\ (Len(log) \in InvalidReads)
       => /\ ~YearAccepted
          /\ ~Printed("res_hdr")
          /\ site = "year"
          /\ pc \in {"rl_print", "rl_flush", "rl_read", "panicked"}
          /\ pc = "panicked" => stderr = "flush failed"
          /\ pc = "rl_read"
               => /\ out[Len(out)] = Line("prompt_year")
                  /\ out[Len(out) - 1] = Line("invalid")

\* "abcd"-like line, then a valid year: one message, and the run completes
C2_Witness ==
  /\ pc = "done"
  /\ Len(log) = 3
  /\ CountOf(out, {"invalid"}) = 1

(***************************************************************************)
(* C3                                                                      *)
(***************************************************************************)
\* C3: once the age is computed it equals current_year - birth_year exactly,
\* and the subtraction neither overflows nor aborts.
C3_AgeExact ==
  AgeComputed
    => /\ ~OverflowPanic
       /\ ~SubOverflows(current_year, birth_year)
       /\ age = current_year - birth_year

(***************************************************************************)
(* C4                                                                      *)
(***************************************************************************)
\* C4: a read_line call that meets the end of input or an unreadable stream
\* is fatal: the program has terminated, and that read was its last.
C4_EndOfInputFatal ==
  \A i \in DOMAIN log :
    (log[i].kind \in {"eof", "ioerr"} \/ ~Returned(i))
      => /\ i = Len(log)
         /\ pc = "panicked"
         /\ stderr = "failed to read"

(***************************************************************************)
(* C5                                                                      *)
(***************************************************************************)
\* C5: in the address block, the address printed for the container of the
\* name String, of heap_box and of name_chars differs from the address
\* printed for its buffer or pointee, for every name, the empty one included.
C5_ContainerDiffersFromBuffer ==
  Printed("addr_hdr")
    => /\ OutText("addr_name") # OutText("addr_name_buf")
       /\ OutText("addr_heap_box") # OutText("addr_heap_box_pointee")
       /\ OutText("addr_name_chars") # OutText("addr_name_chars_buf")

\* the address block of a run whose name is empty
C5_Witness ==
  /\ Printed("addr_hdr")
  /\ name.bytes = <<>>
  /\ OutText("addr_name_buf") = Pointer(Dangling(1))
  /\ OutText("addr_name_chars_buf") = Pointer(Dangling(4))

(***************************************************************************)
(* C6                                                                      *)
(***************************************************************************)
MainAddressLines ==
  {"addr_name", "addr_name_buf", "addr_stack_value", "addr_heap_box",
   "addr_heap_box_pointee", "addr_name_chars", "addr_name_chars_buf"}

\* C6: both addresses of the second-frame block are locations of
\* show_stack_frame's own frame (its parameter and its local), and neither
\* equals an address printed for the calling frame.
C6_OwnFrameAddresses ==
  Printed("frame_hdr")
    => /\ OutText("frame_name") = Pointer(callee.name)
       /\ OutText("frame_local") = Pointer(callee.local)
       /\ \A k \in MainAddressLines :
            OutText(k) \notin {OutText("frame_name"), OutText("frame_local")}

(***************************************************************************)
(* C7                                                                      *)
(***************************************************************************)
RECURSIVE YearLoopKeys(_)
YearLoopKeys(i) ==
  IF i > Len(log) THEN <<>>
  ELSE <<"prompt_year">>
         \o (IF i \in InvalidReads THEN <<"invalid">> ELSE <<>>)
         \o YearLoopKeys(i + 1)

ExpectedKeys ==
  <<"banner", "welcome", "prompt_name">> \o YearLoopKeys(2)
    \o <<"res_hdr", "res_name", "res_birth", "res_current", "res_age">>
    \o <<"addr_hdr", "addr_welcome", "addr_name", "addr_name_buf",
         "addr_stack_value", "addr_heap_box", "addr_heap_box_pointee",
         "addr_name_chars", "addr_name_chars_buf", "addr_example_function">>
    \o <<"frame_hdr", "frame_name", "frame_local">>
    \o <<"hint">>

IsPrefix(a, b) == Len(a) <= Len(b) /\ a = SubSeq(b, 1, Len(a))

\* C7: in every run that passes the year prompt the output is the fixed
\* sequence banner, welcome, prompts and messages, results block, address
\* block, second-frame block, closing hint: no block early or twice, and the
\* closing hint is the last output of the run.
C7_FixedSequence ==
  YearAccepted
    => /\ IsPrefix(Keys(out), ExpectedKeys)
       /\ Terminated => Keys(out) = ExpectedKeys

(***************************************************************************)
(* C8                                                                      *)
(***************************************************************************)
\* C8: once a name and a valid year have been supplied the program runs to
\* completion: it can only end after printing the closing hint, with success.
C8_ReachesClosingHint ==
  (YearAccepted /\ Terminated)
    => /\ pc = "done"
       /\ stderr = ""
       /\ out[Len(out)] = Line("hint")

(***************************************************************************)
(* C9                                                                      *)
(***************************************************************************)
Prompts == {"prompt_name", "prompt_year"}

\* C9: whenever read_line waits on standard input its prompt has been written
\* and flushed and is the last thing shown; every read was preceded by one
\* display of its prompt and took one entry from the input; and the text
\* handed to the caller is the line as supplied, trailing newline included.
C9_PromptFlushedBeforeRead ==
  /\ pc = "rl_read"
       => /\ pending = <<>>
          /\ out # <<>>
          /\ out[Len(out)] = PromptOf(site)
  /\ CountOf(out, Prompts) + CountOf(pending, Prompts)
       = Len(log) + (IF pc \in {"rl_flush", "rl_read"} \/ stderr = "flush failed"
                     THEN 1 ELSE 0)
  /\ CountOf(out, {"prompt_name"}) <= 1
  /\ (Len(log) >= 1 /\ Returned(1)) => name.bytes = log[1].bytes
  /\ (Len(log) >= 2 /\ Returned(Len(log))) => s = log[Len(log)].bytes

\* waiting for the second year line, after a name and a year line were read
C9_Witness ==
  /\ pc = "rl_read"
  /\ Len(log) = 2
  /\ log[2].kind = "line"
  /\ s[Len(s)] = 10

(***************************************************************************)
(* C10                                                                     *)
(***************************************************************************)
\* the number of characters of a UTF-8 string: its bytes that start a character
CharCount(bs) == Cardinality({i \in DOMAIN bs : ~IsCont(bs[i])})

AllWhitespace(bs) ==
  ValidUtf8(bs) /\ \A i \in DOMAIN Chars(bs) : IsWhitespace(Chars(bs)[i])

\* t is raw without the whitespace at its two ends
IsTrimOf(t, raw) ==
  /\ \E i \in 0..Len(raw) : \E j \in i..Len(raw) :
       /\ t = SubSeq(raw, i + 1, j)
       /\ AllWhitespace(SubSeq(raw, 1, i))
       /\ AllWhitespace(SubSeq(raw, j + 1, Len(raw)))
  /\ t # <<>>
       => /\ ~IsWhitespace(Chars(t)[1])
          /\ ~IsWhitespace(Chars(t)[Len(Chars(t))])

\* each text with the whitespace at its two ends removed
TrimmedForm ==
  [x \in Texts |->
     CHOOSE t \in {SubSeq(x, i + 1, j) : i \in 0..Len(x), j \in 0..Len(x)} :
       IsTrimOf(t, x)]

NameCharsBuilt ==
  pc \in {"now", "age", "results", "addrs", "call", "hint", "done"} \/ OverflowPanic

\* C10: the stored name and name_chars come from the line as read: name_chars
\* has one entry per character of the raw line, its newline included, while
\* the name shown in the results block is that line trimmed.
C10_NameCharsFromRawLine ==
  NameCharsBuilt
    => /\ name.bytes = log[1].bytes
       /\ Len(name_chars.chars) = CharCount(log[1].bytes)
       /\ \A i \in DOMAIN name_chars.chars :
            name_chars.chars[i] < 128 => name_chars.chars[i] \in
              {log[1].bytes[j] : j \in DOMAIN log[1].bytes}
       /\ (log[1].bytes # <<>> /\ log[1].bytes[Len(log[1].bytes)] = 10)
            => name_chars.chars[Len(name_chars.chars)] = 10
       /\ Printed("res_name") => OutText("res_name") = TrimmedForm[log[1].bytes]

\* a name whose bytes, characters and shown characters all differ in number
C10_Witness ==
  /\ pc = "done"
  /\ Len(name.bytes) > Len(name_chars.chars)
  /\ Len(name_chars.chars) > CharCount(OutText("res_name"))
  /\ name_chars.chars[Len(name_chars.chars)] = 10

====
